---- MODULE Spec2Model ----
(***************************************************************************)
(* PDF -> audiobook script (src/main.py): text extraction, chunking, the   *)
(* interactive settings prompts and the record / speak orchestration of    *)
(* main().  Python strings are sequences of one-character strings.         *)
(***************************************************************************)
EXTENDS Integers, Sequences, FiniteSets, TLC

\* ------------------------------------------------------------------------
\* Bounds of the model
\* ------------------------------------------------------------------------
\* Longest text handed to chunk_text in ChunkSpec.
MaxLen == 4
\* Largest max_chars handed to chunk_text in ChunkSpec.
MaxM == 3
\* Inputs the user types at one prompt before the model stops supplying more.
MaxAttempts == 2
\* Stand-in for chunk_text's default max_chars (1200 in the source): main()
\* always calls chunk_text(text) with the default, and the texts of the model
\* are sized relative to it so that runs have zero, one, several and more
\* than ReportLimit chunks.
MaxChars == 2
\* main() prints the first 10 saved names (saved_files[:10]).
ReportLimit == 10

\* ------------------------------------------------------------------------
\* Python values and string operations
\* ------------------------------------------------------------------------
\* Optional values: None is the empty tuple, a present value x is <<x>>.
None == <<>>
Some(x) == <<x>>

\* str.split() / str.strip() whitespace (the characters the model uses).
Whitespace == {" ", "\n", "\t"}

IsSpace(c) == c \in Whitespace

RECURSIVE lstrip(_)
lstrip(s) ==
  IF s # <<>> /\ IsSpace(Head(s)) THEN lstrip(Tail(s)) ELSE s

RECURSIVE rstrip(_)
rstrip(s) ==
  IF s # <<>> /\ IsSpace(s[Len(s)]) THEN rstrip(SubSeq(s, 1, Len(s) - 1)) ELSE s

\* str.strip()
strip(s) == rstrip(lstrip(s))

\* First word of s (s starts with a non-space character): the longest prefix
\* without whitespace.
RECURSIVE TakeWord(_)
TakeWord(s) ==
  IF s = <<>> \/ IsSpace(Head(s)) THEN <<>> ELSE <<Head(s)>> \o TakeWord(Tail(s))

\* str.split() with no separator: the maximal runs of non-whitespace.
RECURSIVE split(_)
split(s) ==
  LET t == lstrip(s) IN
  IF t = <<>> THEN <<>>
  ELSE LET w == TakeWord(t) IN <<w>> \o split(SubSeq(t, Len(w) + 1, Len(t)))

\* sep.join(parts)
RECURSIVE join(_, _)
join(sep, parts) ==
  IF parts = <<>> THEN <<>>
  ELSE IF Len(parts) = 1 THEN parts[1]
  ELSE parts[1] \o sep \o join(sep, Tail(parts))

\* Unicode decimal digits (category Nd); the model uses the ASCII ones.
DecimalDigits == {"0", "1", "2", "3", "4", "5", "6", "7", "8", "9"}

\* U+00B2 SUPERSCRIPT TWO: Numeric_Type=Digit but not a decimal digit, so
\* str.isdigit() is True for it and int() rejects it.
SuperscriptTwo == "sup2"

\* Characters str.isdigit() accepts: Numeric_Type Digit or Decimal.
DigitChars == DecimalDigits \cup {SuperscriptTwo}

\* str.isdigit(): non-empty and every character is a digit.
isdigit(s) == s # <<>> /\ \A i \in 1..Len(s) : s[i] \in DigitChars

DigitValue(c) ==
  CASE c = "0" -> 0 [] c = "1" -> 1 [] c = "2" -> 2 [] c = "3" -> 3
    [] c = "4" -> 4 [] c = "5" -> 5 [] c = "6" -> 6 [] c = "7" -> 7
    [] c = "8" -> 8 [] c = "9" -> 9

RECURSIVE DecimalValue(_)
DecimalValue(s) ==
  IF s = <<>> THEN 0
  ELSE 10 * DecimalValue(SubSeq(s, 1, Len(s) - 1)) + DigitValue(s[Len(s)])

\* int(s) for the strings the program passes to it (isdigit(s) holds, so no
\* sign, underscore or blank): Some(value) of a decimal literal, and None
\* when int() raises ValueError.
int(s) ==
  IF s # <<>> /\ \A i \in 1..Len(s) : s[i] \in DecimalDigits
  THEN Some(DecimalValue(s))
  ELSE None

LowerCase == <<"a", "b", "g", "m", "o", "p", "r", "s", "v", "w", "x">>
UpperCase == <<"A", "B", "G", "M", "O", "P", "R", "S", "V", "W", "X">>

UpperChar(c) ==
  IF \E i \in 1..Len(LowerCase) : LowerCase[i] = c
  THEN UpperCase[CHOOSE i \in 1..Len(LowerCase) : LowerCase[i] = c]
  ELSE c

LowerChar(c) ==
  IF \E i \in 1..Len(UpperCase) : UpperCase[i] = c
  THEN LowerCase[CHOOSE i \in 1..Len(UpperCase) : UpperCase[i] = c]
  ELSE c

\* str.upper() / str.lower()
upper(s) == [i \in 1..Len(s) |-> UpperChar(s[i])]
lower(s) == [i \in 1..Len(s) |-> LowerChar(s[i])]

\* range(0, n, step) as the sequence of its values.
range0(n, step) == [k \in 1..((n + step - 1) \div step) |-> (k - 1) * step]

\* text[i : j] (0-based, end exclusive, clipped to the string).
slice(text, i, j) == SubSeq(text, i + 1, IF j < Len(text) THEN j ELSE Len(text))

\* ------------------------------------------------------------------------
\* chunk_text
\* ------------------------------------------------------------------------
\* A chunker that slices one character short of max_chars.
chunk_text_short(text, max_chars) ==
  LET t == join(<<" ">>, split(text))
      starts == range0(Len(t), max_chars)
  IN  [k \in 1..Len(starts) |-> slice(t, starts[k], starts[k] + max_chars - 1)]

\* chunk_text(text, max_chars): the generator's values, in order.
chunk_text(text, max_chars) ==
  LET t == join(<<" ">>, split(text))
      starts == range0(Len(t), max_chars)
  IN  [k \in 1..Len(starts) |-> slice(t, starts[k], starts[k] + max_chars)]


\* ------------------------------------------------------------------------
\* Paths and file names
\* ------------------------------------------------------------------------
LastDot(name) ==
  LET dots == {i \in 1..Len(name) : name[i] = "."}
  IN  IF dots = {} THEN 0 ELSE CHOOSE i \in dots : \A j \in dots : j <= i

\* PurePath.suffix: from the last dot, unless the name starts or ends with it.
suffix(name) ==
  LET i == LastDot(name)
  IN  IF 1 < i /\ i < Len(name) THEN SubSeq(name, i, Len(name)) ELSE <<>>

\* PurePath.stem
stem(name) == SubSeq(name, 1, Len(name) - Len(suffix(name)))

\* PurePath.with_suffix(suf), on the file name
with_suffix(name, suf) == stem(name) \o suf

DigitChar(d) ==
  CASE d = 0 -> "0" [] d = 1 -> "1" [] d = 2 -> "2" [] d = 3 -> "3"
    [] d = 4 -> "4" [] d = 5 -> "5" [] d = 6 -> "6" [] d = 7 -> "7"
    [] d = 8 -> "8" [] d = 9 -> "9"

RECURSIVE decimal_str(_)
decimal_str(n) ==
  IF n < 10 THEN <<DigitChar(n)>>
  ELSE decimal_str(n \div 10) \o <<DigitChar(n % 10)>>

\* format(idx, "03d"): decimal, zero-padded on the left to at least 3 digits.
format_03d(idx) ==
  LET d == decimal_str(idx)
  IN  [i \in 1..(3 - Len(d)) |-> "0"] \o d

OutDir == "output_audio"

\* out_dir / f"{base_name}_part{idx:03d}.wav", numbered from 0.
wav_path_from0(base_name, idx) ==
  [dir |-> OutDir,
   name |-> base_name \o <<"_", "p", "a", "r", "t">> \o format_03d(idx - 1)
            \o <<".", "w", "a", "v">>]

\* out_dir / f"{base_name}_part{idx:03d}.wav"
wav_path(base_name, idx) ==
  [dir |-> OutDir,
   name |-> base_name \o <<"_", "p", "a", "r", "t">> \o format_03d(idx)
            \o <<".", "w", "a", "v">>]

\* wav_file.with_suffix(".mp3")
mp3_path(wav_file) ==
  [dir |-> wav_file.dir, name |-> with_suffix(wav_file.name, <<".", "m", "p", "3">>)]

\* ------------------------------------------------------------------------
\* extract_pdf_text
\* ------------------------------------------------------------------------
\* (page.extract_text() or "").strip() of every page, in page order.
page_texts(pages) ==
  [i \in 1..Len(pages) |-> strip(IF pages[i] = None THEN <<>> ELSE pages[i][1])]

\* The texts appended to parts: the non-empty ones, in order.
non_empty(texts) == SelectSeq(texts, LAMBDA t : t # <<>>)

\* extract_pdf_text(pdf_path), on the pages the reader yields; each page is
\* what extract_text() returns for it: None or Some(string).
extract_pdf_text(pages) ==
  IF pages = <<>> THEN <<>>
  ELSE strip(join(<<"\n">>, non_empty(page_texts(pages))))

\* main(): "if text:" never true, so the run goes on with empty text.
no_text_never(text) == FALSE

\* main(): "if not text:"
no_text(text) == text = <<>>

\* ------------------------------------------------------------------------
\* Voices and the prompt loops; one operator per loop body, giving what one
\* line of input does: return a value, raise, or prompt again.
\* ------------------------------------------------------------------------
Return(v) == [kind |-> "return", value |-> <<v>>]
Raise == [kind |-> "raise", value |-> <<>>]
Retry == [kind |-> "retry", value |-> <<>>]

\* list_voices(engine): (idx, name or "Unknown", id or "") per driver voice;
\* a missing, None or empty attribute is the empty string.
list_voices(voices) ==
  [i \in 1..Len(voices) |->
     <<i - 1, IF voices[i].name = "" THEN "Unknown" ELSE voices[i].name, voices[i].id>>]

\* choose_voice: body of the while loop for the input line raw.
choose_voice_step(items, raw) ==
  LET s == strip(raw) IN
  IF s = <<>> THEN Return(None)
  ELSE IF isdigit(s)
       THEN LET i == int(s) IN
            IF i = None THEN Raise
            ELSE IF 0 <= i[1] /\ i[1] < Len(items)
                 THEN Return(Some(items[i[1] + 1][3]))
                 ELSE Retry
       ELSE Retry

DefaultRate == 170
MinRate == 80
MaxRate == 350

\* choose_rate with the lower bound excluded.
choose_rate_step_strict(raw) ==
  LET s == strip(raw) IN
  IF s = <<>> THEN Return(DefaultRate)
  ELSE IF isdigit(s)
       THEN LET r == int(s) IN
            IF r = None THEN Raise
            ELSE IF MinRate < r[1] /\ r[1] <= MaxRate THEN Return(r[1]) ELSE Retry
       ELSE Retry

\* choose_rate: body of the while loop for the input line raw.
choose_rate_step(raw) ==
  LET s == strip(raw) IN
  IF s = <<>> THEN Return(DefaultRate)
  ELSE IF isdigit(s)
       THEN LET r == int(s) IN
            IF r = None THEN Raise
            ELSE IF MinRate <= r[1] /\ r[1] <= MaxRate THEN Return(r[1]) ELSE Retry
       ELSE Retry

ModeS == <<"S">>
ModeR == <<"R">>
ModeB == <<"B">>

\* choose_mode: body of the while loop for the input line raw.
choose_mode_step(raw) ==
  LET m == upper(strip(raw)) IN
  IF m = <<>> THEN Return(ModeS)
  ELSE IF m \in {ModeS, ModeR, ModeB} THEN Return(m) ELSE Retry

Wav == <<"w", "a", "v">>
Mp3 == <<"m", "p", "3">>

\* choose_save_format: body of the while loop for the input line raw.
choose_save_format_step(raw) ==
  LET s == lower(strip(raw)) IN
  IF s = <<>> THEN Return(Wav)
  ELSE IF s \in {Wav, Mp3} THEN Return(s) ELSE Retry

\* collect_settings: "if mode in {"R", "B"}:"
asks_save_format(mode) == mode \in {ModeR, ModeB}

\* main(): "if settings.mode in {"R", "B"}:"
records(mode) == mode \in {ModeR, ModeB}

\* main(): speaking when the mode is S only.
speaks_s_only(mode) == mode = ModeS

\* main(): "if settings.mode in {"S", "B"}:"
speaks(mode) == mode \in {ModeS, ModeB}

\* ------------------------------------------------------------------------
\* The speech engine
\* ------------------------------------------------------------------------
\* A freshly constructed engine: nothing queued, no request received yet.
\* Rate and volume stand for the driver's own defaults, which the program
\* never reads: every engine is configured before it is used.
NewEngine ==
  [rate |-> 0, volume |-> 0, voice |-> "driver default", queue |-> <<>>, received |-> <<>>]

\* pyttsx3.init(): the engine for the default driver.  The library keeps the
\* live engines by driver name and hands out the one it has; main() holds its
\* first engine until it returns, so every later call gets that same instance.
\* engs is the sequence of instances constructed so far.
pyttsx3_init(engs) ==
  IF engs = <<>> THEN [engines |-> <<NewEngine>>, id |-> 1]
  ELSE [engines |-> engs, id |-> 1]

\* configure_engine(engine, settings)
configure_engine(e, st) ==
  [e EXCEPT !.rate = st.rate,
            !.volume = 1,
            !.voice = IF st.voice_id # None /\ st.voice_id[1] # "" THEN st.voice_id[1] ELSE @]

NoPath == [dir |-> "", name |-> <<>>]

\* engine.save_to_file(text, path) / engine.say(text): queue the request.
enqueue(e, op, part, path) ==
  LET cmd == [op |-> op, text |-> part, path |-> path]
  IN  [e EXCEPT !.queue = Append(@, cmd), !.received = Append(@, cmd)]

\* Paths the queued save_to_file requests write, in queue order.
queued_paths(q) ==
  LET saves == SelectSeq(q, LAMBDA c : c.op = "save_to_file")
  IN  [i \in 1..Len(saves) |-> saves[i].path]

\* Texts the queued say requests speak, in queue order.
queued_speech(q) ==
  LET says == SelectSeq(q, LAMBDA c : c.op = "say")
  IN  [i \in 1..Len(says) |-> says[i].text]

Range(f) == {f[i] : i \in DOMAIN f}

\* ------------------------------------------------------------------------
\* State
\* ------------------------------------------------------------------------
VARIABLES
  pc,             \* position in main() (or its outcome)
  pdf,            \* environment: the pages of the PDF the user can select
  ffmpeg,         \* environment: shutil.which("ffmpeg") is not None
  driver_voices,  \* environment: the voices the speech driver offers
  pdf_path,       \* main: pdf_path, None or Some(file name)
  text,           \* main: text
  engines,        \* the engine instances constructed so far
  engine,         \* main: engine (index into engines, 0 before the call)
  record_engine,  \* main: record_engine
  speak_engine,   \* main: speak_engine
  console,        \* the prompt function last entered and the lines typed at it
  prompted,       \* the prompts issued so far
  locals,         \* collect_settings: voice_id, rate, mode, save_format as assigned
  settings,       \* main: settings (empty before collect_settings returns)
  out_dir_made,   \* out_dir.mkdir was called
  disk,           \* files present in out_dir
  writes,         \* every file write, in order
  wav_files,      \* save_wav_chunks: files / main: wav_files
  mp3_files,      \* main: the list the comprehension over wav_files is building
  saved_files,    \* main: saved_files
  k,              \* 1-based position of the running loop
  transcodes,     \* every ffmpeg run: input, output, exit status
  spoken,         \* texts spoken aloud, in order
  report,         \* the "Saved N file(s)" report, None until printed
  chunk_in,       \* ChunkSpec: the arguments of chunk_text
  chunk_out       \* ChunkSpec: None, then Some(list(chunk_text(...)))

vars ==
  <<pc, pdf, ffmpeg, driver_voices, pdf_path, text, engines, engine, record_engine,
    speak_engine, console, prompted, locals, settings, out_dir_made, disk, writes,
    wav_files, mp3_files, saved_files, k, transcodes, spoken, report, chunk_in, chunk_out>>

env == <<pdf, ffmpeg, driver_voices>>
chunk_vars == <<chunk_in, chunk_out>>
engine_vars == <<engines, engine, record_engine, speak_engine>>
prompt_vars == <<console, prompted, locals, settings>>
file_vars == <<out_dir_made, disk, writes, wav_files, mp3_files, saved_files, transcodes>>

\* ------------------------------------------------------------------------
\* Inputs of the model
\* ------------------------------------------------------------------------
\* A page with more than ReportLimit chunks of text.
LongPage == [i \in 1..(ReportLimit * MaxChars + 1) |-> "a"]

\* The PDFs: no pages; pages without text; the three-page example of the
\* documentation in small; text that needs whitespace collapsing; a long text.
Pdfs ==
  { <<>>,
    <<Some(<<>>)>>,
    <<None, Some(<<" ", "\n">>)>>,
    <<Some(<<"a", " ", "b">>), Some(<<>>), Some(<<"c">>)>>,
    <<Some(<<" ", "a", " ", " ", "b", "\n", "c">>)>>,
    <<Some(<<"a", "b">>)>>,
    <<Some(LongPage)>> }

\* What askopenfilename returns: "" on cancel, else the chosen file.
DialogResults == { <<>>, <<"b", ".", "p", "d", "f">> }

DriverVoiceSets ==
  { <<>>,
    <<[name |-> "Alex", id |-> "voice.alex"]>>,
    <<[name |-> "Alex", id |-> "voice.alex"], [name |-> "", id |-> ""]>> }

VoiceInputs ==
  { <<>>, <<"0">>, <<" ", "1">>, <<"7">>, <<"x">>, <<SuperscriptTwo>> }

RateInputs ==
  { <<>>, <<"9", "0">>, <<" ", "8", "0">>, <<"3", "5", "0", " ">>,
    <<"7", "9">>, <<"4", "0", "0">>, <<"a", "b", "c">>, <<SuperscriptTwo>> }

ModeInputs ==
  { <<>>, <<"s">>, <<"R">>, <<" ", "b", " ">>, <<"X">>, <<"r", "b">> }

FormatInputs ==
  { <<" ">>, <<"w", "a", "v">>, <<"M", "P", "3">>, <<"o", "g", "g">> }

\* ------------------------------------------------------------------------
\* Initial states
\* ------------------------------------------------------------------------
MainIdle ==
  /\ pdf_path = None /\ text = <<>>
  /\ engines = <<>> /\ engine = 0 /\ record_engine = 0 /\ speak_engine = 0
  /\ console = [prompt |-> "", inputs |-> <<>>]
  /\ prompted = {} /\ locals = <<>> /\ settings = <<>>
  /\ out_dir_made = FALSE /\ disk = {} /\ writes = <<>>
  /\ wav_files = <<>> /\ mp3_files = <<>> /\ saved_files = <<>>
  /\ k = 0 /\ transcodes = <<>> /\ spoken = <<>> /\ report = None

Init ==
  /\ pc = "pick_pdf_file"
  /\ pdf \in Pdfs
  /\ ffmpeg \in BOOLEAN
  /\ driver_voices \in DriverVoiceSets
  /\ MainIdle
  /\ chunk_in = [text |-> <<>>, max_chars |-> MaxChars]
  /\ chunk_out = None

\* ------------------------------------------------------------------------
\* main(): file selection and extraction
\* ------------------------------------------------------------------------
\* pick_pdf_file() and "if not pdf_path: raise SystemExit".
PickPdfFile ==
  /\ pc = "pick_pdf_file"
  /\ \E file_path \in DialogResults :
       IF file_path = <<>>
       THEN /\ pdf_path' = None
            /\ pc' = "exit_no_pdf"
       ELSE /\ pdf_path' = Some(file_path)
            /\ pc' = "extract_pdf_text"
  /\ UNCHANGED <<env, text, engine_vars, prompt_vars, file_vars, k, spoken, report, chunk_vars>>

\* text = extract_pdf_text(pdf_path) and "if not text: raise SystemExit".
ExtractPdfText ==
  /\ pc = "extract_pdf_text"
  /\ text' = extract_pdf_text(pdf)
  /\ pc' = IF no_text(text') THEN "exit_no_text" ELSE "init_engine"
  /\ UNCHANGED <<env, pdf_path, engine_vars, prompt_vars, file_vars, k, spoken, report, chunk_vars>>

\* engine = pyttsx3.init()
InitEngine ==
  /\ pc = "init_engine"
  /\ LET r == pyttsx3_init(engines) IN
       /\ engines' = r.engines
       /\ engine' = r.id
  /\ pc' = "choose_voice"
  /\ UNCHANGED <<env, pdf_path, text, record_engine, speak_engine, prompt_vars, file_vars,
                 k, spoken, report, chunk_vars>>

\* ------------------------------------------------------------------------
\* collect_settings(engine)
\* ------------------------------------------------------------------------
\* Lines typed so far at prompt p.
Typed(p) == IF console.prompt = p THEN console.inputs ELSE <<>>

\* input(...) at prompt p reads raw.
ReadLine(p, raw) ==
  /\ console' = [prompt |-> p, inputs |-> Append(Typed(p), raw)]
  /\ prompted' = prompted \cup {p}

\* locals with name bound to v.
Bind(name, v) == [n \in DOMAIN locals \cup {name} |-> IF n = name THEN v ELSE locals[n]]

\* choose_voice: "if not items: return None", with no prompt.
ChooseVoiceNoVoices ==
  /\ pc = "choose_voice"
  /\ list_voices(driver_voices) = <<>>
  /\ locals' = Bind("voice_id", None)
  /\ pc' = "choose_rate"
  /\ UNCHANGED <<env, pdf_path, text, engine_vars, console, prompted, settings, file_vars,
                 k, spoken, report, chunk_vars>>

\* choose_voice: one pass of the while loop.
ChooseVoice ==
  /\ pc = "choose_voice"
  /\ list_voices(driver_voices) # <<>>
  /\ Len(Typed("voice")) < MaxAttempts
  /\ \E raw \in VoiceInputs :
       LET r == choose_voice_step(list_voices(driver_voices), raw) IN
       /\ ReadLine("voice", raw)
       /\ locals' = IF r.kind = "return" THEN Bind("voice_id", r.value[1]) ELSE locals
       /\ pc' = CASE r.kind = "return" -> "choose_rate"
                  [] r.kind = "raise" -> "value_error"
                  [] OTHER -> pc
  /\ UNCHANGED <<env, pdf_path, text, engine_vars, settings, file_vars, k, spoken, report,
                 chunk_vars>>

\* choose_rate: one pass of the while loop.
ChooseRate ==
  /\ pc = "choose_rate"
  /\ Len(Typed("rate")) < MaxAttempts
  /\ \E raw \in RateInputs :
       LET r == choose_rate_step(raw) IN
       /\ ReadLine("rate", raw)
       /\ locals' = IF r.kind = "return" THEN Bind("rate", r.value[1]) ELSE locals
       /\ pc' = CASE r.kind = "return" -> "choose_mode"
                  [] r.kind = "raise" -> "value_error"
                  [] OTHER -> pc
  /\ UNCHANGED <<env, pdf_path, text, engine_vars, settings, file_vars, k, spoken, report,
                 chunk_vars>>

\* choose_mode: one pass of the while loop; on return, save_format = "wav"
\* and the test whether to ask for the format.
ChooseMode ==
  /\ pc = "choose_mode"
  /\ Len(Typed("mode")) < MaxAttempts
  /\ \E raw \in ModeInputs :
       LET r == choose_mode_step(raw) IN
       /\ ReadLine("mode", raw)
       /\ locals' = IF r.kind = "return"
                    THEN [n \in DOMAIN locals \cup {"mode", "save_format"} |->
                            CASE n = "mode" -> r.value[1]
                              [] n = "save_format" -> Wav
                              [] OTHER -> locals[n]]
                    ELSE locals
       /\ pc' = IF r.kind = "return"
                THEN IF asks_save_format(r.value[1]) THEN "choose_save_format"
                     ELSE "make_settings"
                ELSE pc
  /\ UNCHANGED <<env, pdf_path, text, engine_vars, settings, file_vars, k, spoken, report,
                 chunk_vars>>

\* has_ffmpeg() with the check left out.
has_ffmpeg_assumed == TRUE

\* has_ffmpeg()
has_ffmpeg == ffmpeg

\* choose_save_format: "if not has_ffmpeg(): return "wav"", with no prompt.
ChooseSaveFormatNoFfmpeg ==
  /\ pc = "choose_save_format"
  /\ ~has_ffmpeg
  /\ locals' = Bind("save_format", Wav)
  /\ pc' = "make_settings"
  /\ UNCHANGED <<env, pdf_path, text, engine_vars, console, prompted, settings, file_vars,
                 k, spoken, report, chunk_vars>>

\* choose_save_format: one pass of the while loop.
ChooseSaveFormat ==
  /\ pc = "choose_save_format"
  /\ has_ffmpeg
  /\ Len(Typed("save_format")) < MaxAttempts
  /\ \E raw \in FormatInputs :
       LET r == choose_save_format_step(raw) IN
       /\ ReadLine("save_format", raw)
       /\ locals' = IF r.kind = "return" THEN Bind("save_format", r.value[1]) ELSE locals
       /\ pc' = IF r.kind = "return" THEN "make_settings" ELSE pc
  /\ UNCHANGED <<env, pdf_path, text, engine_vars, settings, file_vars, k, spoken, report,
                 chunk_vars>>

\* return TTSSettings(...): collect_settings returns, its locals go away.
MakeSettings ==
  /\ pc = "make_settings"
  /\ settings' = locals
  /\ locals' = <<>>
  /\ pc' = "configure_engine"
  /\ UNCHANGED <<env, pdf_path, text, engine_vars, console, prompted, file_vars, k, spoken,
                 report, chunk_vars>>

\* ------------------------------------------------------------------------
\* main(): record, speak, report
\* ------------------------------------------------------------------------
\* list(chunk_text(text)): the generator main() iterates, default max_chars.
chunks == chunk_text(text, MaxChars)

\* base_name = pdf_path.stem
base_name == stem(pdf_path[1])

\* Where main() goes after the record block.
after_record == IF speaks(settings.mode) THEN "speak_init" ELSE "report"

\* configure_engine(engine, settings); saved_files = []; the test of the
\* record block.
ConfigureEngine ==
  /\ pc = "configure_engine"
  /\ engines' = [engines EXCEPT ![engine] = configure_engine(@, settings)]
  /\ saved_files' = <<>>
  /\ pc' = IF records(settings.mode) THEN "record_init" ELSE after_record
  /\ UNCHANGED <<env, pdf_path, text, engine, record_engine, speak_engine, prompt_vars,
                 out_dir_made, disk, writes, wav_files, mp3_files, transcodes, k, spoken,
                 report, chunk_vars>>

\* record_engine = pyttsx3.init(); configure_engine(record_engine, settings)
RecordInit ==
  /\ pc = "record_init"
  /\ LET r == pyttsx3_init(engines) IN
       /\ engines' = [r.engines EXCEPT ![r.id] = configure_engine(@, settings)]
       /\ record_engine' = r.id
  /\ pc' = "save_wav_chunks"
  /\ UNCHANGED <<env, pdf_path, text, engine, speak_engine, prompt_vars, file_vars, k,
                 spoken, report, chunk_vars>>

\* save_wav_chunks: out_dir.mkdir(parents=True, exist_ok=True); files = []
SaveWavChunksEnter ==
  /\ pc = "save_wav_chunks"
  /\ out_dir_made' = TRUE
  /\ wav_files' = <<>>
  /\ k' = 1
  /\ pc' = "save_loop"
  /\ UNCHANGED <<env, pdf_path, text, engine_vars, prompt_vars, disk, writes, mp3_files,
                 saved_files, transcodes, spoken, report, chunk_vars>>

\* save_wav_chunks: one pass of the for loop, with the files numbered from 0.
SaveChunkFrom0 ==
  /\ pc = "save_loop"
  /\ k <= Len(chunks)
  /\ LET p == wav_path_from0(base_name, k) IN
       /\ wav_files' = Append(wav_files, p)
       /\ engines' = [engines EXCEPT
                        ![record_engine] = enqueue(@, "save_to_file", chunks[k], p)]
  /\ k' = k + 1
  /\ UNCHANGED <<env, pc, pdf_path, text, engine, record_engine, speak_engine, prompt_vars,
                 out_dir_made, disk, writes, mp3_files, saved_files, transcodes, spoken,
                 report, chunk_vars>>

\* save_wav_chunks: one pass of the for loop over enumerate(chunk_text(text), start=1).
SaveChunk ==
  /\ pc = "save_loop"
  /\ k <= Len(chunks)
  /\ LET p == wav_path(base_name, k) IN
       /\ wav_files' = Append(wav_files, p)
       /\ engines' = [engines EXCEPT
                        ![record_engine] = enqueue(@, "save_to_file", chunks[k], p)]
  /\ k' = k + 1
  /\ UNCHANGED <<env, pc, pdf_path, text, engine, record_engine, speak_engine, prompt_vars,
                 out_dir_made, disk, writes, mp3_files, saved_files, transcodes, spoken,
                 report, chunk_vars>>

\* save_wav_chunks: the generator is exhausted, return files.
SaveWavChunksReturn ==
  /\ pc = "save_loop"
  /\ k > Len(chunks)
  /\ pc' = "record_run_and_wait"
  /\ UNCHANGED <<env, pdf_path, text, engine_vars, prompt_vars, file_vars, k, spoken,
                 report, chunk_vars>>

\* engine.runAndWait() on engines[e]: every queued request is carried out, a
\* save_to_file writing its file and a say speaking its text.
RunAndWait(e) ==
  /\ disk' = disk \cup Range(queued_paths(engines[e].queue))
  /\ writes' = writes \o queued_paths(engines[e].queue)
  /\ spoken' = spoken \o queued_speech(engines[e].queue)
  /\ engines' = [engines EXCEPT ![e].queue = <<>>]

\* record_engine.runAndWait() and the test of the save format.
RecordRunAndWait ==
  /\ pc = "record_run_and_wait"
  /\ RunAndWait(record_engine)
  /\ IF settings.save_format = Mp3
     THEN /\ mp3_files' = <<>>
          /\ k' = 1
          /\ pc' = "convert"
          /\ UNCHANGED saved_files
     ELSE /\ saved_files' = wav_files
          /\ pc' = after_record
          /\ UNCHANGED <<mp3_files, k>>
  /\ UNCHANGED <<env, pdf_path, text, engine, record_engine, speak_engine, prompt_vars,
                 out_dir_made, wav_files, transcodes, report, chunk_vars>>

\* convert_wav_to_mp3(w), ffmpeg exiting 0: the mp3 file is written.
ConvertOk ==
  /\ pc = "convert"
  /\ k <= Len(wav_files)
  /\ wav_files[k] \in disk
  /\ LET out == mp3_path(wav_files[k]) IN
       /\ transcodes' = Append(transcodes, [input |-> wav_files[k], output |-> out, ok |-> TRUE])
       /\ disk' = disk \cup {out}
       /\ writes' = Append(writes, out)
       /\ mp3_files' = Append(mp3_files, out)
  /\ k' = k + 1
  /\ UNCHANGED <<env, pc, pdf_path, text, engine_vars, prompt_vars, out_dir_made, wav_files,
                 saved_files, spoken, report, chunk_vars>>

\* A failed conversion that is skipped: the loop goes on with the next file.
ConvertFailContinue ==
  /\ pc = "convert"
  /\ k <= Len(wav_files)
  /\ transcodes' = Append(transcodes, [input |-> wav_files[k],
                                       output |-> mp3_path(wav_files[k]), ok |-> FALSE])
  /\ k' = k + 1
  /\ UNCHANGED <<env, pc, pdf_path, text, engine_vars, prompt_vars, out_dir_made, disk,
                 writes, wav_files, mp3_files, saved_files, spoken, report, chunk_vars>>

\* convert_wav_to_mp3(w), ffmpeg exiting non-zero: subprocess.run(check=True)
\* raises CalledProcessError, which nothing catches.  ffmpeg may have left
\* part of its output file behind.
ConvertFail ==
  /\ pc = "convert"
  /\ k <= Len(wav_files)
  /\ LET out == mp3_path(wav_files[k]) IN
       /\ transcodes' = Append(transcodes, [input |-> wav_files[k], output |-> out, ok |-> FALSE])
       /\ \E partial \in BOOLEAN :
            /\ disk' = IF partial THEN disk \cup {out} ELSE disk
            /\ writes' = IF partial THEN Append(writes, out) ELSE writes
  /\ pc' = "abort_transcode"
  /\ UNCHANGED <<env, pdf_path, text, engine_vars, prompt_vars, out_dir_made, wav_files,
                 mp3_files, saved_files, k, spoken, report, chunk_vars>>

\* The comprehension is complete: saved_files = [...].
ConvertDone ==
  /\ pc = "convert"
  /\ k > Len(wav_files)
  /\ saved_files' = mp3_files
  /\ pc' = after_record
  /\ UNCHANGED <<env, pdf_path, text, engine_vars, prompt_vars, out_dir_made, disk, writes,
                 wav_files, mp3_files, transcodes, k, spoken, report, chunk_vars>>

\* speak_engine = pyttsx3.init(); configure_engine(speak_engine, settings)
SpeakInit ==
  /\ pc = "speak_init"
  /\ LET r == pyttsx3_init(engines) IN
       /\ engines' = [r.engines EXCEPT ![r.id] = configure_engine(@, settings)]
       /\ speak_engine' = r.id
  /\ k' = 1
  /\ pc' = "speak_loop"
  /\ UNCHANGED <<env, pdf_path, text, engine, record_engine, prompt_vars, file_vars,
                 spoken, report, chunk_vars>>

\* speak_text: one pass of the for loop, engine.say(part).
SayChunk ==
  /\ pc = "speak_loop"
  /\ k <= Len(chunks)
  /\ engines' = [engines EXCEPT ![speak_engine] = enqueue(@, "say", chunks[k], NoPath)]
  /\ k' = k + 1
  /\ UNCHANGED <<env, pc, pdf_path, text, engine, record_engine, speak_engine, prompt_vars,
                 file_vars, spoken, report, chunk_vars>>

\* speak_text: engine.runAndWait() after the loop.
SpeakRunAndWait ==
  /\ pc = "speak_loop"
  /\ k > Len(chunks)
  /\ RunAndWait(speak_engine)
  /\ pc' = "report"
  /\ UNCHANGED <<env, pdf_path, text, engine, record_engine, speak_engine, prompt_vars,
                 out_dir_made, wav_files, mp3_files, saved_files, transcodes, k, report,
                 chunk_vars>>

\* "if saved_files:" the count, the first ReportLimit names and " ..." when
\* there are more; then main() returns.
Report ==
  /\ pc = "report"
  /\ report' = IF saved_files # <<>>
               THEN Some([count |-> Len(saved_files),
                          dir |-> OutDir,
                          names |-> [i \in 1..(IF Len(saved_files) < ReportLimit
                                               THEN Len(saved_files) ELSE ReportLimit)
                                       |-> saved_files[i].name],
                          more |-> Len(saved_files) > ReportLimit])
               ELSE None
  /\ pc' = "done"
  /\ UNCHANGED <<env, pdf_path, text, engine_vars, prompt_vars, file_vars, k, spoken,
                 chunk_vars>>

Next ==
  \/ PickPdfFile
  \/ ExtractPdfText
  \/ InitEngine
  \/ ChooseVoiceNoVoices
  \/ ChooseVoice
  \/ ChooseRate
  \/ ChooseMode
  \/ ChooseSaveFormatNoFfmpeg
  \/ ChooseSaveFormat
  \/ MakeSettings
  \/ ConfigureEngine
  \/ RecordInit
  \/ SaveWavChunksEnter
  \/ SaveChunk
  \/ SaveWavChunksReturn
  \/ RecordRunAndWait
  \/ ConvertOk
  \/ ConvertFail
  \/ ConvertDone
  \/ SpeakInit
  \/ SayChunk
  \/ SpeakRunAndWait
  \/ Report

Spec == Init /\ [][Next]_vars

\* ------------------------------------------------------------------------
\* chunk_text on its own: every short text over ChunkAlphabet, every small
\* max_chars
\* ------------------------------------------------------------------------
ChunkAlphabet == {"a", "b", " ", "\n"}

ChunkTexts == UNION {[1..n -> ChunkAlphabet] : n \in 0..MaxLen}

ChunkInit ==
  /\ pc = "chunk_text"
  /\ pdf = <<>> /\ ffmpeg = FALSE /\ driver_voices = <<>>
  /\ MainIdle
  /\ chunk_in \in [text : ChunkTexts, max_chars : 1..MaxM]
  /\ chunk_out = None

\* chunks = list(chunk_text(text, max_chars))
ChunkText ==
  /\ pc = "chunk_text"
  /\ chunk_out = None
  /\ chunk_out' = Some(chunk_text(chunk_in.text, chunk_in.max_chars))
  /\ UNCHANGED <<pc, env, pdf_path, text, engine_vars, prompt_vars, file_vars, k, spoken,
                 report, chunk_in>>

ChunkNext == ChunkText

ChunkSpec == ChunkInit /\ [][ChunkNext]_vars

\* ------------------------------------------------------------------------
\* Vocabulary of the properties
\* ------------------------------------------------------------------------
\* The whitespace-collapsed form of a text, character by character: every
\* run of whitespace between two words becomes one space, leading and
\* trailing whitespace disappears.
RECURSIVE CollapseFrom(_, _, _)
CollapseFrom(s, out, gap) ==
  IF s = <<>> THEN out
  ELSE IF Head(s) \in {" ", "\n", "\t"}
       THEN CollapseFrom(Tail(s), out, out # <<>>)
       ELSE CollapseFrom(Tail(s), out \o (IF gap THEN <<" ">> ELSE <<>>) \o <<Head(s)>>, FALSE)

Collapsed(s) == CollapseFrom(s, <<>>, FALSE)

RECURSIVE Concat(_)
Concat(seqs) == IF seqs = <<>> THEN <<>> ELSE Head(seqs) \o Concat(Tail(seqs))

CeilDiv(n, m) == (n + m - 1) \div m

Distinct(f) == \A i, j \in DOMAIN f : i # j => f[i] # f[j]

\* The requests of kind op that engine e has received, in order.
Received(e, op) ==
  IF e \in 1..Len(engines)
  THEN SelectSeq(engines[e].received, LAMBDA c : c.op = op)
  ELSE <<>>

AnyReceived(op) == \E e \in 1..Len(engines) : Received(e, op) # <<>>

Texts(cmds) == [i \in 1..Len(cmds) |-> cmds[i].text]

\* The settings in force: the record once made, the locals before.
Chosen == IF settings # <<>> THEN settings ELSE locals

ModeChosen == "mode" \in DOMAIN Chosen

RecordMode == ModeChosen /\ Chosen.mode \in {<<"R">>, <<"B">>}
SpeakMode == ModeChosen /\ Chosen.mode \in {<<"S">>, <<"B">>}

\* C1 (as stated): the chunks of T concatenate to the collapsed form of T,
\* none is longer than M, and there are ceil(len(T)/M) of them, zero for the
\* empty text.
C1_CountFromRawLength ==
  chunk_out # None =>
    LET cs == chunk_out[1]
        T == chunk_in.text
        M == chunk_in.max_chars
    IN  /\ Concat(cs) = Collapsed(T)
        /\ \A i \in 1..Len(cs) : Len(cs[i]) <= M
        /\ Len(cs) = IF T = <<>> THEN 0 ELSE CeilDiv(Len(T), M)

\* C1 (amended): the chunks of T concatenate to the collapsed form of T, none
\* is longer than M or empty, and there are ceil(len(collapsed T)/M) of them:
\* the count is taken on the collapsed text, and is zero exactly when T holds
\* no non-whitespace character.
C1_ChunksPartitionCollapsedText ==
  chunk_out # None =>
    LET cs == chunk_out[1]
        T == chunk_in.text
        M == chunk_in.max_chars
    IN  /\ Concat(cs) = Collapsed(T)
        /\ \A i \in 1..Len(cs) : 1 <= Len(cs[i]) /\ Len(cs[i]) <= M
        /\ Len(cs) = CeilDiv(Len(Collapsed(T)), M)
        /\ (Len(cs) = 0) <=> (\A i \in 1..Len(T) : T[i] \in {" ", "\n", "\t"})

\* A text whose whitespace had to be collapsed was cut into several chunks.
C1_Witness ==
  /\ chunk_out # None
  /\ Len(chunk_out[1]) >= 2
  /\ Collapsed(chunk_in.text) # chunk_in.text
  /\ Len(chunk_out[1]) < CeilDiv(Len(chunk_in.text), chunk_in.max_chars)

\* C2: recording actions (making the output directory, queuing save_to_file,
\* running the transcoder) happen only in mode R or B, say requests only in
\* mode S or B; and a run that completes has recorded every chunk in mode R
\* or B and spoken every chunk in mode S or B.
C2_ModeGatesPhases ==
  /\ (out_dir_made \/ AnyReceived("save_to_file") \/ transcodes # <<>>) => RecordMode
  /\ AnyReceived("say") => SpeakMode
  /\ (pc = "done" /\ RecordMode) =>
       /\ Texts(Received(record_engine, "save_to_file")) = chunks
       /\ \A i \in 1..Len(chunks) : Received(record_engine, "save_to_file")[i].path \in disk
  /\ (pc = "done" /\ SpeakMode) =>
       /\ Texts(Received(speak_engine, "say")) = chunks
       /\ spoken = chunks
  /\ (pc = "done" /\ ~RecordMode) => (disk = {} /\ ~out_dir_made)
  /\ (pc = "done" /\ ~SpeakMode) => spoken = <<>>

\* A run in mode B over a text of several chunks has completed.
C2_Witness ==
  /\ pc = "done"
  /\ settings # <<>> /\ settings.mode = <<"B">>
  /\ Len(chunks) >= 2
  /\ spoken = chunks

\* A page without extractable text: extract_text() gave None, "" or only
\* whitespace.
PageEmpty(page) ==
  page = None \/ \A i \in 1..Len(page[1]) : page[1][i] \in {" ", "\n", "\t"}

\* C3: when no page of the PDF has text (or there are no pages), the
\* extracted text is empty and main ends with the no-extractable-text exit
\* before any prompt is issued or engine initialized, with no file written.
C3_NoTextExitsBeforeSettings ==
  /\ ((\A i \in 1..Len(pdf) : PageEmpty(pdf[i]))
        /\ pc \notin {"pick_pdf_file", "extract_pdf_text", "exit_no_pdf"})
       => (pc = "exit_no_text" /\ text = <<>>)
  /\ pc = "exit_no_text" =>
       /\ prompted = {} /\ console.inputs = <<>> /\ settings = <<>>
       /\ engines = <<>> /\ engine = 0
       /\ disk = {} /\ writes = <<>> /\ ~out_dir_made

\* A PDF with pages, none with text, ended the run.
C3_Witness == pc = "exit_no_text" /\ Len(pdf) >= 2

\* C4: the save-format prompt is issued only in mode R or B with ffmpeg
\* detected; without the prompt the settings' save_format is wav; hence mp3
\* implies mode R or B and ffmpeg detected.
C4_FormatPromptOnlyWhenRecordingWithFfmpeg ==
  /\ "save_format" \in prompted => (RecordMode /\ ffmpeg)
  /\ (settings # <<>> /\ "save_format" \notin prompted) => settings.save_format = <<"w", "a", "v">>
  /\ (settings # <<>> /\ settings.save_format = <<"m", "p", "3">>) => (RecordMode /\ ffmpeg)
  /\ settings # <<>> => settings.save_format \in {<<"w", "a", "v">>, <<"m", "p", "3">>}

\* mp3 was chosen at the save-format prompt.
C4_Witness ==
  /\ settings # <<>>
  /\ settings.save_format = <<"m", "p", "3">>
  /\ "save_format" \in prompted

TranscodeFailed == \E i \in 1..Len(transcodes) : ~transcodes[i].ok

\* C5: once ffmpeg has exited non-zero the run is aborted at that conversion:
\* it is the last conversion run, every earlier one succeeded, nothing is
\* said, no report is printed, and every wav file and every mp3 file made
\* before it is on disk.
C5_TranscodeFailureAborts ==
  TranscodeFailed =>
    LET n == Len(transcodes) IN
    /\ pc = "abort_transcode"
    /\ settings.save_format = <<"m", "p", "3">>
    /\ ~transcodes[n].ok
    /\ \A i \in 1..(n - 1) : transcodes[i].ok /\ transcodes[i].output \in disk
    /\ \A i \in 1..n : transcodes[i].input = wav_files[i]
    /\ Len(wav_files) = Len(chunks)
    /\ \A i \in 1..Len(wav_files) : wav_files[i] \in disk
    /\ speak_engine = 0 /\ ~AnyReceived("say") /\ spoken = <<>>
    /\ report = None /\ saved_files = <<>>

\* In mode B the second conversion failed, with more files left to convert.
C5_Witness ==
  /\ pc = "abort_transcode"
  /\ settings.mode = <<"B">>
  /\ Len(transcodes) = 2
  /\ Len(wav_files) > 2

\* ------------------------------------------------------------------------
\* The prompts, as the documentation describes them
\* ------------------------------------------------------------------------
\* The typed line without its surrounding blanks.
Trimmed(raw) ==
  LET keep == {i \in 1..Len(raw) : raw[i] \notin {" ", "\n", "\t"}}
  IN  IF keep = {} THEN <<>>
      ELSE SubSeq(raw, CHOOSE i \in keep : \A j \in keep : i <= j,
                       CHOOSE i \in keep : \A j \in keep : j <= i)

Blank(raw) == Trimmed(raw) = <<>>

\* The line is a number written in decimal digits.
IsNumber(raw) ==
  /\ ~Blank(raw)
  /\ \A i \in 1..Len(Trimmed(raw)) :
       Trimmed(raw)[i] \in {"0", "1", "2", "3", "4", "5", "6", "7", "8", "9"}

RECURSIVE NumberOf(_)
NumberOf(d) ==
  IF d = <<>> THEN 0
  ELSE 10 * NumberOf(SubSeq(d, 1, Len(d) - 1))
       + (CHOOSE v \in 0..9 : DigitChar(v) = d[Len(d)])

Number(raw) == NumberOf(Trimmed(raw))

\* The mode a letter names, in either case; <<>> when it names none.
ModeNamed(raw) ==
  LET t == Trimmed(raw) IN
  CASE t \in {<<"s">>, <<"S">>} -> <<"S">>
    [] t \in {<<"r">>, <<"R">>} -> <<"R">>
    [] t \in {<<"b">>, <<"B">>} -> <<"B">>
    [] OTHER -> <<>>

\* The format a word names, in either case; <<>> when it names none.
FormatNamed(raw) ==
  LET t == Trimmed(raw) IN
  CASE t \in {<<"w", "a", "v">>, <<"W", "A", "V">>} -> <<"w", "a", "v">>
    [] t \in {<<"m", "p", "3">>, <<"M", "P", "3">>} -> <<"m", "p", "3">>
    [] OTHER -> <<>>

\* A line that is neither blank nor a valid answer to prompt p.
Malformed(p, raw) ==
  /\ ~Blank(raw)
  /\ CASE p = "voice" -> ~(IsNumber(raw) /\ Number(raw) < Len(driver_voices))
       [] p = "rate" -> ~(IsNumber(raw) /\ 80 <= Number(raw) /\ Number(raw) <= 350)
       [] p = "mode" -> ModeNamed(raw) = <<>>
       [] p = "save_format" -> FormatNamed(raw) = <<>>
       [] OTHER -> FALSE

PromptPc(p) == "choose_" \o p

\* C6: a malformed line at a settings prompt makes the prompt function ask
\* again: it neither returns nor raises, and nothing but the console changes.
C6_MalformedInputReprompts ==
  [][ (console' # console /\ Malformed(console'.prompt, console'.inputs[Len(console'.inputs)]))
        => /\ pc = PromptPc(console'.prompt)
           /\ pc' = pc
           /\ UNCHANGED <<env, pdf_path, text, engine_vars, locals, settings, file_vars, k,
                          spoken, report>> ]_vars

\* The prompt function for p has returned and no later prompt has read a line.
Returned(p) ==
  /\ console.prompt = p
  /\ pc \notin {PromptPc(p), "value_error"}

LastLine == console.inputs[Len(console.inputs)]

\* Every line before the last was rejected: the last line is the first
\* accepted one.
EarlierRejected(p) ==
  \A i \in 1..(Len(console.inputs) - 1) : Malformed(p, console.inputs[i])

\* C7: every settings record is valid (rate in 80..350, mode S/R/B, format
\* wav/mp3, voice_id None or the id of one of the driver's voices), and each
\* prompt returns on the first line that is blank or valid, with the value
\* that line names: rate 170 for blank and the number otherwise, mode S for
\* blank and the letter's mode in either case, voice None for blank and the
\* id at the index otherwise.
C7_SettingsValid ==
  /\ settings # <<>> =>
       /\ DOMAIN settings = {"voice_id", "rate", "mode", "save_format"}
       /\ settings.rate \in 80..350
       /\ settings.mode \in {<<"S">>, <<"R">>, <<"B">>}
       /\ settings.save_format \in {<<"w", "a", "v">>, <<"m", "p", "3">>}
       /\ \/ settings.voice_id = None
          \/ \E i \in 1..Len(driver_voices) : settings.voice_id = Some(driver_voices[i].id)
  /\ Returned("rate") =>
       /\ EarlierRejected("rate")
       /\ Chosen.rate = IF Blank(LastLine) THEN 170 ELSE Number(LastLine)
       /\ Blank(LastLine) \/ (IsNumber(LastLine) /\ Number(LastLine) \in 80..350)
  /\ Returned("mode") =>
       /\ EarlierRejected("mode")
       /\ Chosen.mode = IF Blank(LastLine) THEN <<"S">> ELSE ModeNamed(LastLine)
  /\ Returned("voice") =>
       /\ EarlierRejected("voice")
       /\ Chosen.voice_id = IF Blank(LastLine) THEN None
                            ELSE Some(driver_voices[Number(LastLine) + 1].id)
  /\ Returned("save_format") =>
       /\ EarlierRejected("save_format")
       /\ Chosen.save_format = IF Blank(LastLine) THEN <<"w", "a", "v">>
                               ELSE FormatNamed(LastLine)

\* Settings were made with a chosen voice and the highest rate, the mode
\* prompt having rejected "X" and then taken " b " as Both.
C7_Witness ==
  /\ settings # <<>>
  /\ settings.rate = 350
  /\ settings.voice_id # None
  /\ settings.mode = <<"B">>
  /\ ffmpeg = FALSE
  /\ console = [prompt |-> "mode", inputs |-> << <<"X">>, <<" ", "b", " ">> >>]

\* output_audio/<stem>_part<i, three digits>.<ext>
ExpectedFile(i, ext) ==
  [dir |-> "output_audio",
   name |-> <<"b">> \o <<"_", "p", "a", "r", "t">>
            \o <<DigitChar(i \div 100), DigitChar((i \div 10) % 10), DigitChar(i % 10)>>
            \o <<".">> \o ext]

TimesWritten(f) == Cardinality({i \in 1..Len(writes) : writes[i] = f})

\* C8 (as stated): a completed recording run has produced exactly one file
\* per chunk, the i-th named <stem>_part<i>.<save_format>, all distinct,
\* each written once, and reports that many files.
C8_OneFilePerChunkOnDisk ==
  (pc = "done" /\ RecordMode) =>
    /\ Len(saved_files) = Len(chunks)
    /\ \A i \in 1..Len(chunks) : saved_files[i] = ExpectedFile(i, settings.save_format)
    /\ Distinct(saved_files)
    /\ report # None /\ report[1].count = Len(chunks)
    /\ disk = Range(saved_files)
    /\ \A f \in disk : TimesWritten(f) = 1

\* C8 (amended): a completed recording run reports exactly one file per
\* chunk, the i-th named <stem>_part<i>.<save_format>, all distinct and each
\* written once; the report gives their count and the first 10 names.  With
\* save_format mp3 the .wav file of every chunk is written first and stays
\* in the directory, so it holds two files per chunk; all wav files are
\* written, in chunk order, before the first mp3 file.
C8_OneReportedFilePerChunk ==
  (pc = "done" /\ RecordMode) =>
    LET n == Len(chunks)
        mp3 == settings.save_format = <<"m", "p", "3">>
    IN
    /\ Len(saved_files) = n
    /\ \A i \in 1..n : saved_files[i] = ExpectedFile(i, settings.save_format)
    /\ Distinct(saved_files)
    /\ report # None
    /\ report[1].count = n
    /\ Len(report[1].names) = (IF n < 10 THEN n ELSE 10)
    /\ \A i \in 1..Len(report[1].names) : report[1].names[i] = saved_files[i].name
    /\ report[1].more = (n > 10)
    /\ \A f \in disk : TimesWritten(f) = 1
    /\ disk = Range(saved_files) \cup {ExpectedFile(i, <<"w", "a", "v">>) : i \in 1..n}
    /\ Cardinality(disk) = (IF mp3 THEN 2 * n ELSE n)
    /\ writes = [i \in 1..n |-> ExpectedFile(i, <<"w", "a", "v">>)]
                \o (IF mp3 THEN saved_files ELSE <<>>)

\* An mp3 recording of more than 10 chunks has completed.
C8_Witness ==
  /\ pc = "done"
  /\ RecordMode
  /\ settings.save_format = <<"m", "p", "3">>
  /\ Len(chunks) > 10
  /\ report # None /\ report[1].more

\* C9: the engine that receives save_to_file requests never receives a say
\* request; the record and speak engines are different instances; the speak
\* engine is initialized only after recording, its flush and every
\* conversion are over; both are configured alike from the settings.
C9_SeparateEnginesPerPhase ==
  /\ \A e \in 1..Len(engines) :
       ~(Received(e, "save_to_file") # <<>> /\ Received(e, "say") # <<>>)
  /\ (record_engine # 0 /\ speak_engine # 0) => record_engine # speak_engine
  /\ (speak_engine # 0 /\ RecordMode) =>
       /\ Len(Received(record_engine, "save_to_file")) = Len(chunks)
       /\ queued_paths(engines[record_engine].queue) = <<>>
       /\ Len(writes) >= Len(chunks)
       /\ settings.save_format = <<"m", "p", "3">> => Len(transcodes) = Len(chunks)
  /\ (record_engine # 0 /\ speak_engine # 0) =>
       /\ engines[record_engine].rate = engines[speak_engine].rate
       /\ engines[record_engine].volume = engines[speak_engine].volume
       /\ engines[record_engine].voice = engines[speak_engine].voice

\* C10: a run that has ended has ended in one of the four outcomes: no file
\* selected, no extractable text, a failed conversion, or normal completion
\* after the report step.
C10_FourOutcomes ==
  pc \in { "pick_pdf_file", "extract_pdf_text", "init_engine", "choose_voice", "choose_rate",
           "choose_mode", "choose_save_format", "make_settings", "configure_engine",
           "record_init", "save_wav_chunks", "save_loop", "record_run_and_wait", "convert",
           "speak_init", "speak_loop", "report" }
  \/ pc \in {"exit_no_pdf", "exit_no_text", "abort_transcode", "done"}

====
